---- MODULE Spec2Model ----
(***************************************************************************)
(* Model of dukascopy/builder/extract.py: extract_symbol and its pool      *)
(* wrapper fork_extract, run by the workers of a process pool against a    *)
(* shared output filesystem.                                               *)
(*                                                                         *)
(* Timestamps are whole ticks counted from the start of year 2024, with    *)
(* TicksPerYear ticks in a calendar year.  The six data columns of a       *)
(* source row are its time and one payload value (volume) that stands for  *)
(* open, high, low, close and volume, which the query passes through       *)
(* together.  The engine (DuckDB) is modelled by what the statement built  *)
(* in extract_symbol asks of it: a COPY of the selected rows to one file,  *)
(* or to one file per (symbol, year) partition present in the rows.  The   *)
(* only engine failure modelled is one raised while the statement is       *)
(* bound (the source file cannot be read), before anything is written;     *)
(* what the engine leaves behind when a COPY fails midway is not decided   *)
(* by extract.py and is not modelled.                                      *)
(* uuid4 and the engine's {uuid} pattern are modelled as fresh ids.        *)
(***************************************************************************)
EXTENDS Integers, Sequences, FiniteSets, TLC

\* ---------------------------------------------------------------- bounds
MaxTime == 2
MaxRows == 3
TicksPerYear == 2
MaxCalls == 2

Workers == {1, 2}

VARIABLES source, dirs, files, sessions, connects, nextUuid, pending,
          calls, pc, task, callid, frame, result, ret

vars == <<source, dirs, files, sessions, connects, nextUuid, pending,
          calls, pc, task, callid, frame, result, ret>>

\* ------------------------------------------------------------ time, text
Ticks == 0..MaxTime

YearOf(t) == 2024 + (t \div TicksPerYear)

\* strftime(Time, '%Y'): the four decimal digits of the calendar year.
FormatYear(y) ==
    <<(y \div 1000) % 10, (y \div 100) % 10, (y \div 10) % 10, y % 10>>

ParseYear(d) == d[1] * 1000 + d[2] * 100 + d[3] * 10 + d[4]

\* CAST(Time AS VARCHAR): year digits and the position inside the year.
CastVarchar(t) == <<FormatYear(YearOf(t)), t % TicksPerYear>>

\* strptime(text, CSV_TIMESTAMP_FORMAT)
Strptime(s) == (ParseYear(s[1]) - 2024) * TicksPerYear + s[2]

\* str.upper() and str.lower() on the option strings in use.
Upper(s) ==
    CASE s = "parquet" -> "PARQUET"
      [] s = "csv"     -> "CSV"
      [] s = "xml"     -> "XML"
      [] s = "zstd"    -> "ZSTD"
      [] s = "gzip"    -> "GZIP"
      [] OTHER         -> s

Lower(s) ==
    CASE s = "PARQUET" -> "parquet"
      [] s = "CSV"     -> "csv"
      [] s = "XML"     -> "xml"
      [] OTHER         -> s

\* dict.get(key, default)
Get(options, key, default) ==
    IF key \in DOMAIN options THEN options[key] ELSE default

\* ---------------------------------------------------------- source files
Row(t, v) == [time |-> t, volume |-> v]

FileOf(times, base) == [i \in 1..Len(times) |-> Row(times[i], base + i)]

SeqsUpTo(S, n) == UNION {[1..k -> S] : k \in 0..n}

\* The input directory of the pool run: two files with rows in the same
\* years; "missing.csv" does not exist.
FixedSources ==
    ("a.csv" :> FileOf([i \in 1..(MaxTime + 1) |-> i - 1], 0)) @@
    ("b.csv" :> FileOf([i \in 1..(MaxTime + 1) |-> MaxTime + 1 - i], 100))

\* One source file with any rows, in any order, duplicates included.
AnySources ==
    {("a.csv" :> FileOf(ts, 0)) : ts \in SeqsUpTo(Ticks, MaxRows)}

\* ------------------------------------------------------------------ tasks
NoField == [x \in {} |-> x]

OptField(key, vals) == {NoField} \cup {(key :> v) : v \in vals}

MkTask(path, after, until, modifier, options) ==
    [symbol |-> "EURUSD", timeframe |-> "1m", input_filepath |-> path,
     after |-> after, until |-> until, modifier |-> modifier,
     options |-> options]

\* Tasks of the concurrent pool run: each file with the window over all its
\* rows, and "a.csv" with a window that lies after all its rows.
PoolInputs ==
    {<<"a.csv", 0, MaxTime + 1>>, <<"b.csv", 0, MaxTime + 1>>,
     <<"a.csv", MaxTime + 1, MaxTime + 2>>, <<"missing.csv", 0, MaxTime + 1>>}

PoolTasks ==
    {MkTask(inp[1], inp[2], inp[3], "",
            ("output_type" :> ot) @@ ("partition" :> part) @@
            ("output_dir" :> "out") @@ ("dry_run" :> dry)) :
        inp \in PoolInputs,
        ot \in {"parquet", "csv", "xml"},
        part \in BOOLEAN, dry \in BOOLEAN}

\* Single-call tasks: every combination of the options ...
OptionTasks ==
    {MkTask(p, 0, MaxTime + 1, "", o1 @@ o2 @@ o3 @@ o4 @@ ("dry_run" :> dry)) :
        p \in {"a.csv", "missing.csv"},
        o1 \in OptField("output_type", {"parquet", "csv", "CSV", "xml"}),
        o2 \in OptField("partition", BOOLEAN),
        o3 \in OptField("output_dir", {"out"}),
        o4 \in OptField("compression", {"gzip"}),
        dry \in BOOLEAN}

\* ... and every window and modifier, for each of the three layouts.
WindowTasks ==
    {MkTask("a.csv", a, u, m, o @@ ("output_dir" :> "out") @@ ("dry_run" :> FALSE)) :
        a \in 0..(MaxTime + 1), u \in 0..(MaxTime + 1),
        m \in {"", "skiplast"},
        o \in {NoField,
               ("output_type" :> "csv") @@ ("partition" :> TRUE),
               ("output_type" :> "csv") @@ ("partition" :> FALSE)}}

SingleTasks == OptionTasks \cup WindowTasks

NoTask == MkTask("", 0, 0, "", ("dry_run" :> FALSE))

\* ----------------------------------------------------- extract_symbol
NoFormat ==
    [format |-> "", partition_by |-> <<>>, filename_pattern |-> <<>>,
     compression |-> "", header |-> FALSE, overwrite_or_ignore |-> FALSE]

NoFrame ==
    [output_type |-> "", is_partitioned |-> FALSE, compression |-> "",
     root_output_dir |-> "", output_file |-> <<>>,
     format_options |-> NoFormat, copied |-> FALSE]

\* lines 105-108
Normalize(options) ==
    [NoFrame EXCEPT
        !.output_type = Upper(Get(options, "output_type", "parquet")),
        !.is_partitioned = Get(options, "partition", FALSE),
        !.compression = Upper(Get(options, "compression", "zstd"))]

\* line 116
RootOutputDir(options, output_type) ==
    Get(options, "output_dir", "./data/temp/" \o Lower(output_type))

Supported(output_type) == output_type \in {"PARQUET", "CSV"}

\* FormatOptions with the partition flag honoured for parquet too
FormatOptionsByFlag(output_type, is_partitioned, compression) ==
    [format |-> output_type,
     partition_by |-> IF is_partitioned THEN <<"symbol", "year">> ELSE <<>>,
     filename_pattern |->
         IF ~is_partitioned THEN <<>>
         ELSE IF output_type = "PARQUET" THEN <<"part_", "{uuid}">>
         ELSE <<"part_", "{uuid}", ".csv">>,
     compression |-> compression, header |-> output_type = "CSV",
     overwrite_or_ignore |-> TRUE]

\* lines 120-153: the COPY options of the three layouts
FormatOptions(output_type, is_partitioned, compression) ==
    IF output_type = "PARQUET"
    THEN [format |-> "PARQUET", partition_by |-> <<"symbol", "year">>,
          filename_pattern |-> <<"part_", "{uuid}">>,
          compression |-> compression, header |-> FALSE,
          overwrite_or_ignore |-> TRUE]
    ELSE IF is_partitioned
    THEN [format |-> "CSV", partition_by |-> <<"symbol", "year">>,
          filename_pattern |-> <<"part_", "{uuid}", ".csv">>,
          compression |-> compression, header |-> TRUE,
          overwrite_or_ignore |-> TRUE]
    ELSE [format |-> "CSV", partition_by |-> <<>>,
          filename_pattern |-> <<>>,
          compression |-> compression, header |-> TRUE,
          overwrite_or_ignore |-> TRUE]

\* uuid4 that repeats itself
uuid4Fixed(n) == 1

\* uuid.uuid4() and the engine's {uuid}: the n-th id drawn so far.
uuid4(n) == n + 1

\* FlatName without the unique id
FlatNameNoUuid(symbol, timeframe, u) ==
    [stem |-> <<symbol, "_", timeframe, "_">>, uuid |-> 0, ext |-> ".csv"]

\* line 146: f"{symbol}_{timeframe}_{uuid.uuid4()}.csv"
FlatName(symbol, timeframe, u) ==
    [stem |-> <<symbol, "_", timeframe, "_">>, uuid |-> u, ext |-> ".csv"]

\* FILENAME_PATTERN with {uuid} replaced
PartName(pattern, u) ==
    [stem |-> SelectSeq(pattern, LAMBDA tok : tok = "part_"),
     uuid |-> IF \E i \in 1..Len(pattern) : pattern[i] = "{uuid}" THEN u ELSE 0,
     ext |-> IF Len(pattern) = 3 THEN pattern[3] ELSE ""]

\* lines 158-164
SelectColumns(symbol, timeframe, r) ==
    [symbol |-> symbol, timeframe |-> timeframe,
     year |-> FormatYear(YearOf(r.time)),
     time |-> Strptime(CastVarchar(r.time)),
     volume |-> r.volume]

\* lines 178-179: SELECT MAX(time) FROM read_csv_auto(input); NULL on no rows
HasMax(rows) == Len(rows) > 0

\* the time of the last row of the file, taken for its maximum
LastOf(rows) == rows[Len(rows)].time

MaxOf(rows) ==
    CHOOSE m \in {rows[i].time : i \in 1..Len(rows)} :
        \A i \in 1..Len(rows) : rows[i].time <= m

\* WhereClause with the upper bound of the window included
WhereClauseClosed(r, rows, after, until, modifier) ==
    /\ r.time >= after
    /\ r.time <= until
    /\ modifier = "skiplast" => (HasMax(rows) /\ r.time < MaxOf(rows))

\* lines 170-180
WhereClause(r, rows, after, until, modifier) ==
    /\ r.time >= after
    /\ r.time < until
    /\ modifier = "skiplast" => (HasMax(rows) /\ r.time < MaxOf(rows))

\* lines 192-197: the SELECT inside COPY
Query(t, rows) ==
    LET kept == SelectSeq(rows, LAMBDA r :
                    WhereClause(r, rows, t.after, t.until, t.modifier))
    IN  [i \in 1..Len(kept) |-> SelectColumns(t.symbol, t.timeframe, kept[i])]

RowSet(rows) == {rows[i] : i \in 1..Len(rows)}

\* A file of the output filesystem.
File(dir, partition, name, call, fo, rows) ==
    [dir |-> dir, partition |-> partition, name |-> name, call |-> call,
     format |-> fo.format, compression |-> fo.compression,
     header |-> fo.header, rows |-> rows]

SamePath(f, g) ==
    f.dir = g.dir /\ f.partition = g.partition /\ f.name = g.name

\* Writing a file replaces the file of the same path, if there is one.
WriteAll(fs, new) ==
    {f \in fs : \A g \in new : ~SamePath(f, g)} \cup new

\* lines 198-201: COPY ... TO output_path (format_options)
CopyTo(fs, fr, call, out, uuid0) ==
    IF fr.format_options.partition_by = <<>>
    THEN WriteAll(fs, {File(fr.root_output_dir, <<>>, fr.output_file[1],
                            call, fr.format_options, out)})
    ELSE LET years == {r.year : r \in RowSet(out)}
             rank(y) == Cardinality({z \in years : ParseYear(z) < ParseYear(y)})
         IN  WriteAll(fs,
               {File(fr.root_output_dir, <<out[1].symbol, y>>,
                     PartName(fr.format_options.filename_pattern,
                              uuid4(uuid0 + rank(y))),
                     call, fr.format_options,
                     SelectSeq(out, LAMBDA r : r.year = y)) : y \in years})

UuidsUsed(fr, out) ==
    IF fr.format_options.partition_by = <<>> THEN 0
    ELSE Cardinality({r.year : r \in RowSet(out)})

\* fork_extract that reports an error as the skip result
fork_extract_swallow(r) == IF r \in {"True", "False"} THEN r ELSE "False"

\* lines 214-216
fork_extract(r) == r

\* ------------------------------------------------------------- actions
Init ==
    /\ source = FixedSources
    /\ dirs = {}
    /\ files = {}
    /\ sessions = {}
    /\ connects = 0
    /\ nextUuid = 0
    /\ pending = MaxCalls
    /\ calls = 0
    /\ pc = [w \in Workers |-> "idle"]
    /\ task = [w \in Workers |-> NoTask]
    /\ callid = [w \in Workers |-> 0]
    /\ frame = [w \in Workers |-> NoFrame]
    /\ result = [w \in Workers |-> "None"]
    /\ ret = [w \in Workers |-> "None"]

InitSingle ==
    /\ source = NoField
    /\ dirs = {}
    /\ files = {}
    /\ sessions = {}
    /\ connects = 0
    /\ nextUuid = 0
    /\ pending = 1
    /\ calls = 0
    /\ pc = [w \in Workers |-> "idle"]
    /\ task = [w \in Workers |-> NoTask]
    /\ callid = [w \in Workers |-> 0]
    /\ frame = [w \in Workers |-> NoFrame]
    /\ result = [w \in Workers |-> "None"]
    /\ ret = [w \in Workers |-> "None"]

\* The pool has a task left and worker w is free to take it.
Free(w) == pc[w] \in {"idle", "done"} /\ pending > 0

\* The pool hands task t to worker w, which calls fork_extract(t); src is
\* the input directory as the call finds it.
Begin(w, t, src) ==
    /\ pending' = pending - 1
    /\ calls' = calls + 1
    /\ callid' = [callid EXCEPT ![w] = calls + 1]
    /\ task' = [task EXCEPT ![w] = t]
    /\ source' = src

Exit(w, r) ==
    /\ pc' = [pc EXCEPT ![w] = "done"]
    /\ result' = [result EXCEPT ![w] = r]
    /\ ret' = [ret EXCEPT ![w] = fork_extract(r)]

\* DryRun with the dry-run test placed after the directory is created
DryRunAfterMkdir(w, T, S) ==
    /\ Free(w)
    /\ \E t \in T, src \in S :
          /\ t.options.dry_run
          /\ Begin(w, t, src)
          /\ frame' = [frame EXCEPT ![w] = Normalize(t.options)]
          /\ dirs' = dirs \cup
                 {RootOutputDir(t.options, Normalize(t.options).output_type)}
    /\ Exit(w, "False")
    /\ UNCHANGED <<files, sessions, connects, nextUuid>>

\* lines 103-113: dry run
DryRun(w, T, S) ==
    /\ Free(w)
    /\ \E t \in T, src \in S :
          /\ t.options.dry_run
          /\ Begin(w, t, src)
          /\ frame' = [frame EXCEPT ![w] = Normalize(t.options)]
    /\ Exit(w, "False")
    /\ UNCHANGED <<dirs, files, sessions, connects, nextUuid>>

\* lines 103-117: not a dry run; the root output directory is created
Mkdir(w, T, S) ==
    /\ Free(w)
    /\ \E t \in T, src \in S :
          /\ ~t.options.dry_run
          /\ Begin(w, t, src)
          /\ LET fr == Normalize(t.options)
                 root == RootOutputDir(t.options, fr.output_type)
             IN  /\ frame' = [frame EXCEPT ![w] =
                        [fr EXCEPT !.root_output_dir = root]]
                 /\ dirs' = dirs \cup {root}
    /\ pc' = [pc EXCEPT ![w] = "layout"]
    /\ UNCHANGED <<files, sessions, connects, nextUuid, result, ret>>

\* lines 120-153
SelectLayout(w) ==
    /\ pc[w] = "layout"
    /\ Supported(frame[w].output_type)
    /\ LET fr == frame[w]
           fo == FormatOptions(fr.output_type, fr.is_partitioned, fr.compression)
           flat == fo.partition_by = <<>>
       IN  /\ frame' = [frame EXCEPT ![w] =
                  [fr EXCEPT !.format_options = fo,
                             !.output_file =
                                 IF flat
                                 THEN <<FlatName(task[w].symbol, task[w].timeframe,
                                                 uuid4(nextUuid))>>
                                 ELSE <<>>]]
           /\ nextUuid' = IF flat THEN nextUuid + 1 ELSE nextUuid
    /\ pc' = [pc EXCEPT ![w] = "connect"]
    /\ UNCHANGED <<source, dirs, files, sessions, connects, pending, calls,
                   task, callid, result, ret>>

\* lines 154-155
RaiseUnsupported(w) ==
    /\ pc[w] = "layout"
    /\ ~Supported(frame[w].output_type)
    /\ Exit(w, "ValueError")
    /\ UNCHANGED <<source, dirs, files, sessions, connects, nextUuid, pending,
                   calls, task, callid, frame>>

\* line 205
Connect(w) ==
    /\ pc[w] = "connect"
    /\ sessions' = sessions \cup {callid[w]}
    /\ connects' = connects + 1
    /\ pc' = [pc EXCEPT ![w] = "execute"]
    /\ UNCHANGED <<source, dirs, files, nextUuid, pending, calls, task,
                   callid, frame, result, ret>>

\* line 206, the statement runs
Execute(w) ==
    /\ pc[w] = "execute"
    /\ task[w].input_filepath \in DOMAIN source
    /\ LET out == Query(task[w], source[task[w].input_filepath])
       IN  /\ files' = CopyTo(files, frame[w], callid[w], out, nextUuid)
           /\ nextUuid' = nextUuid + UuidsUsed(frame[w], out)
    /\ frame' = [frame EXCEPT ![w].copied = TRUE]
    /\ pc' = [pc EXCEPT ![w] = "close"]
    /\ UNCHANGED <<source, dirs, sessions, connects, pending, calls, task,
                   callid, result, ret>>

\* line 206, the statement raises: the exception leaves extract_symbol
ExecuteRaise(w) ==
    /\ pc[w] = "execute"
    /\ task[w].input_filepath \notin DOMAIN source
    /\ Exit(w, "IOException")
    /\ UNCHANGED <<source, dirs, files, sessions, connects, nextUuid, pending,
                   calls, task, callid, frame>>

\* lines 207-209
CloseReturn(w) ==
    /\ pc[w] = "close"
    /\ sessions' = sessions \ {callid[w]}
    /\ Exit(w, "True")
    /\ UNCHANGED <<source, dirs, files, connects, nextUuid, pending, calls,
                   task, callid, frame>>

Next ==
    \E w \in Workers :
        \/ DryRun(w, PoolTasks, {source})
        \/ Mkdir(w, PoolTasks, {source})
        \/ SelectLayout(w)
        \/ RaiseUnsupported(w)
        \/ Connect(w)
        \/ Execute(w)
        \/ ExecuteRaise(w)
        \/ CloseReturn(w)

Spec == Init /\ [][Next]_vars

NextSingle ==
    \/ DryRun(1, SingleTasks, AnySources)
    \/ Mkdir(1, SingleTasks, AnySources)
    \/ SelectLayout(1)
    \/ RaiseUnsupported(1)
    \/ Connect(1)
    \/ Execute(1)
    \/ ExecuteRaise(1)
    \/ CloseReturn(1)

SpecSingle == InitSingle /\ [][NextSingle]_vars

TypeOK ==
    /\ \A w \in Workers :
          pc[w] \in {"idle", "layout", "connect", "execute", "close", "done"}
    /\ \A w \in Workers :
          result[w] \in {"None", "True", "False", "ValueError", "IOException"}
    /\ pending \in 0..MaxCalls
    /\ calls \in 0..MaxCalls

\* ------------------------------------------------------ what a call is
Done(w) == pc[w] = "done"

DryRunOf(w) == task[w].options.dry_run

\* the output type as the caller gave it, letter case aside
GivenType(w) == Lower(Upper(Get(task[w].options, "output_type", "parquet")))

Owned(w) == {f \in files : f.call = callid[w]}

RECURSIVE SumLen(_)
SumLen(S) ==
    IF S = {} THEN 0
    ELSE LET f == CHOOSE x \in S : TRUE IN Len(f.rows) + SumLen(S \ {f})

RowsOf(S) == UNION {RowSet(f.rows) : f \in S}

SourceOf(w) == source[task[w].input_filepath]

\* positions of the source rows inside [window_start, window_end)
InWindow(w) ==
    {i \in 1..Len(SourceOf(w)) :
        /\ task[w].after <= SourceOf(w)[i].time
        /\ SourceOf(w)[i].time < task[w].until}

\* the derived row of source row i
Derived(w, i) ==
    [symbol |-> task[w].symbol, timeframe |-> task[w].timeframe,
     year |-> FormatYear(2024 + (SourceOf(w)[i].time \div TicksPerYear)),
     time |-> SourceOf(w)[i].time,
     volume |-> SourceOf(w)[i].volume]

\* ---------------------------------------------------------------- C1
\* C1: a call with an output type outside {parquet, csv} (no dry run) ends
\* with the unsupported-output-type error, and by then has created no
\* directory and opened no engine session.
C1_UnsupportedFailsBeforeIO ==
    \A w \in Workers :
        (Done(w) /\ ~DryRunOf(w) /\ GivenType(w) \notin {"parquet", "csv"})
            => /\ result[w] = "ValueError"
               /\ dirs = {}
               /\ connects = 0

\* ---------------------------------------------------------------- C2
\* C2: a dry-run call returns False whatever its other options are, and
\* leaves no directory, no file and no engine session behind.
C2_DryRunDoesNothing ==
    \A w \in Workers :
        (Done(w) /\ DryRunOf(w))
            => /\ result[w] = "False"
               /\ dirs = {}
               /\ files = {}
               /\ sessions = {}
               /\ connects = 0

C2_Witness ==
    \E w \in Workers :
        /\ Done(w)
        /\ DryRunOf(w)
        /\ GivenType(w) = "xml"
        /\ "output_dir" \in DOMAIN task[w].options
        /\ Get(task[w].options, "partition", FALSE)
        /\ result[w] = "False"

\* ---------------------------------------------------------------- C3
\* C3: no engine session of a call is open once the call has exited.
C3_SessionClosedOnExit ==
    \A w \in Workers : Done(w) => callid[w] \notin sessions

\* ---------------------------------------------------------------- C4
Partitioned(w) == frame[w].format_options.partition_by = <<"symbol", "year">>

\* the call of w has run its COPY of an existing source to a partitioned layout
Copied(w) == frame[w].copied /\ Partitioned(w)

ExpectedRows(w) == {Derived(w, i) : i \in InWindow(w)}

\* C4: two calls on different source files that write to the same
\* (symbol, year) partitions of one output directory, in any interleaving:
\* each one's part files hold exactly its own qualifying rows, none shares a
\* path with a file of the other, the partition holds the union of both,
\* and both calls return True.
C4_ConcurrentCallsKeepBoth ==
    \A w1, w2 \in Workers :
        (/\ w1 # w2
         /\ Copied(w1) /\ Copied(w2)
         /\ task[w1].input_filepath # task[w2].input_filepath
         /\ task[w1].symbol = task[w2].symbol
         /\ frame[w1].root_output_dir = frame[w2].root_output_dir)
            => /\ RowsOf(Owned(w1)) = ExpectedRows(w1)
               /\ SumLen(Owned(w1)) = Cardinality(InWindow(w1))
               /\ \A f \in Owned(w1), g \in Owned(w2) : ~SamePath(f, g)
               /\ RowsOf(Owned(w1) \cup Owned(w2))
                      = ExpectedRows(w1) \cup ExpectedRows(w2)
               /\ Done(w1) => result[w1] = "True"

C4_Witness ==
    \E w1, w2 \in Workers :
        /\ w1 # w2
        /\ pc[w1] = "close" /\ pc[w2] = "close"
        /\ Copied(w1) /\ Copied(w2)
        /\ task[w1].input_filepath = "a.csv"
        /\ task[w2].input_filepath = "b.csv"
        /\ \E f \in Owned(w1), g \in Owned(w2) :
              f.dir = g.dir /\ f.partition = g.partition /\ f.format = g.format

\* ---------------------------------------------------------------- C5
\* C5: a successful call without modifier writes exactly the source rows
\* with window_start <= time < window_end, each once, and every written
\* row carries the year of its own timestamp (and lies in that year's
\* partition when the layout is partitioned).
C5_WindowRows ==
    \A w \in Workers :
        (Done(w) /\ result[w] = "True" /\ task[w].modifier = "")
            => /\ RowsOf(Owned(w)) = ExpectedRows(w)
               /\ SumLen(Owned(w)) = Cardinality(InWindow(w))
               /\ \A f \in Owned(w) : \A r \in RowSet(f.rows) :
                     /\ ParseYear(r.year) = 2024 + (r.time \div TicksPerYear)
                     /\ f.partition # <<>> => f.partition = <<r.symbol, r.year>>

C5_Witness ==
    \E w \in Workers :
        /\ Done(w) /\ result[w] = "True" /\ task[w].modifier = ""
        /\ \E i, j \in 1..Len(SourceOf(w)) :
              /\ SourceOf(w)[i].time = task[w].after
              /\ SourceOf(w)[j].time = task[w].until
              /\ i \in InWindow(w)
        /\ Cardinality(InWindow(w)) < Len(SourceOf(w))
        /\ SumLen(Owned(w)) = Cardinality(InWindow(w))

\* ---------------------------------------------------------------- C6
\* the rows of the source that carry its maximum timestamp
AtMax(w) ==
    {i \in 1..Len(SourceOf(w)) :
        \A j \in 1..Len(SourceOf(w)) : SourceOf(w)[j].time <= SourceOf(w)[i].time}

MaxInWindow(w) == AtMax(w) \cap InWindow(w) # {}

\* C6: with modifier "skiplast" a successful call writes the windowed rows
\* except those at the maximum timestamp of the whole source: M minus the
\* number of rows at that timestamp when it lies in the window, and the
\* windowed rows unchanged when it does not.
C6_SkipLast ==
    \A w \in Workers :
        (Done(w) /\ result[w] = "True" /\ task[w].modifier = "skiplast")
            => /\ RowsOf(Owned(w)) = {Derived(w, i) : i \in InWindow(w) \ AtMax(w)}
               /\ MaxInWindow(w) =>
                     SumLen(Owned(w))
                         = Cardinality(InWindow(w)) - Cardinality(AtMax(w))
               /\ ~MaxInWindow(w) =>
                     /\ SumLen(Owned(w)) = Cardinality(InWindow(w))
                     /\ RowsOf(Owned(w)) = ExpectedRows(w)

C6_Witness ==
    \E w \in Workers :
        /\ Done(w) /\ result[w] = "True" /\ task[w].modifier = "skiplast"
        /\ MaxInWindow(w)
        /\ Cardinality(AtMax(w)) = 2
        /\ SourceOf(w)[Len(SourceOf(w))].time < SourceOf(w)[1].time
        /\ SumLen(Owned(w)) = 1

\* ---------------------------------------------------------------- C7
\* the call of w has chosen its layout (lines 120-153 have run)
LayoutChosen(w) ==
    \/ pc[w] \in {"connect", "execute", "close"}
    \/ Done(w) /\ result[w] \in {"True", "IOException"}

PartitionedLayout(w, format) ==
    /\ frame[w].format_options.format = format
    /\ frame[w].format_options.partition_by = <<"symbol", "year">>
    /\ frame[w].output_file = <<>>
    /\ \A f \in Owned(w) :
          /\ f.format = format
          /\ f.dir = frame[w].root_output_dir
          /\ Len(f.partition) = 2
          /\ f.partition[1] = task[w].symbol
          /\ \A r \in RowSet(f.rows) : f.partition[2] = r.year

FlatLayout(w) ==
    /\ frame[w].format_options.format = "CSV"
    /\ frame[w].format_options.partition_by = <<>>
    /\ Len(frame[w].output_file) = 1
    /\ \A f \in Owned(w) :
          f.format = "CSV" /\ f.dir = frame[w].root_output_dir /\ f.partition = <<>>

\* C7: the layout follows the decision table on (output_type, partition):
\* parquet is partitioned by (symbol, year) whether partition is true,
\* false or absent; csv with partition = true is partitioned by
\* (symbol, year); csv with partition = false is one unpartitioned file.
C7_LayoutTable ==
    \A w \in Workers :
        LayoutChosen(w) =>
            /\ GivenType(w) = "parquet" => PartitionedLayout(w, "PARQUET")
            /\ (/\ GivenType(w) = "csv"
                /\ "partition" \in DOMAIN task[w].options
                /\ task[w].options.partition) => PartitionedLayout(w, "CSV")
            /\ (/\ GivenType(w) = "csv"
                /\ "partition" \in DOMAIN task[w].options
                /\ ~task[w].options.partition) => FlatLayout(w)

C7_Witness ==
    \E w \in Workers :
        /\ Done(w) /\ result[w] = "True"
        /\ GivenType(w) = "parquet"
        /\ "partition" \in DOMAIN task[w].options
        /\ ~task[w].options.partition
        /\ Cardinality(Owned(w)) = 2
        /\ PartitionedLayout(w, "PARQUET")

\* ---------------------------------------------------------------- C8
FlatCall(w) ==
    /\ Done(w) /\ result[w] = "True"
    /\ GivenType(w) = "csv"
    /\ ~Get(task[w].options, "partition", FALSE)

PartitionedCsvCall(w) ==
    /\ Done(w) /\ result[w] = "True"
    /\ GivenType(w) = "csv"
    /\ Get(task[w].options, "partition", FALSE)

\* a successful flat call has exactly one file, directly under output_dir,
\* named {symbol}_{timeframe}_{id}.csv, and no other call's file has its id
OneFlatFile(w) ==
    /\ Cardinality(Owned(w)) = 1
    /\ \A f \in Owned(w) :
          /\ f.dir = Get(task[w].options, "output_dir", "")
          /\ f.partition = <<>>
          /\ f.name.stem = <<task[w].symbol, "_", task[w].timeframe, "_">>
          /\ f.name.ext = ".csv"
          /\ \A g \in files : g.name.uuid = f.name.uuid => g = f

YearsOf(w) == {r.year : r \in ExpectedRows(w)}

C9_ResultKinds ==
    \A w \in Workers :
        Done(w) =>
            /\ result[w] = "True" <=> frame[w].copied
            /\ result[w] = "False" <=> DryRunOf(w)
            /\ (~DryRunOf(w) /\ GivenType(w) \notin {"parquet", "csv"})
                  => result[w] = "ValueError"
            /\ (/\ ~DryRunOf(w)
                /\ GivenType(w) \in {"parquet", "csv"}
                /\ task[w].input_filepath \notin DOMAIN source)
                  => result[w] = "IOException"
            /\ ret[w] = result[w]

C9_Witness ==
    \E w \in Workers :
        /\ Done(w)
        /\ ~DryRunOf(w)
        /\ result[w] = "IOException"
        /\ ret[w] = "IOException"
        /\ ~frame[w].copied
====
